---- MODULE Spec2Model ----
(***************************************************************************)
(* Sum-Product-Network node graphs (spflow/base/structure/nodes/node.py):  *)
(* breadth-first traversal, Kahn's topological sort (flat and layered),    *)
(* the bottom-up and the top-down evaluator, and the parametric leaves     *)
(* (Gaussian, Bernoulli, Binomial, Hypergeometric) with their likelihood   *)
(* adapters.                                                               *)
(***************************************************************************)
EXTENDS Integers, Sequences, FiniteSets, TLC

\* ------------------------------------------------------------------------
\* Bounds of the model
\* ------------------------------------------------------------------------
NumNodes == 3
MaxEdges == 4

Nodes == 1..NumNodes

\* the random variables 0 .. NumVars - 1 that scopes are drawn from
NumVars == 2

\* the node handed to the traversals and evaluators as `node` / `root`
root == 1

RECURSIVE SumLen(_, _)
SumLen(f, set) ==
    IF set = {} THEN 0
    ELSE LET x == CHOOSE y \in set : TRUE IN Len(f[x]) + SumLen(f, set \ {x})

Last(s) == s[Len(s)]

RECURSIVE Reverse(_)
Reverse(s) == IF s = <<>> THEN <<>> ELSE Append(Reverse(Tail(s)), Head(s))

RECURSIVE Flatten(_)
Flatten(ss) == IF ss = <<>> THEN <<>> ELSE Head(ss) \o Flatten(Tail(ss))

Range(s) == {s[i] : i \in DOMAIN s}

Count(s, x) == Cardinality({i \in DOMAIN s : s[i] = x})

\* ------------------------------------------------------------------------
\* Graph theory used to state the properties (independent of the traversals)
\* ------------------------------------------------------------------------
Kids(ch, n) == Range(ch[n])

RECURSIVE Closure(_, _, _)
Closure(ch, set, k) ==
    IF k = 0 THEN set
    ELSE Closure(ch, set \cup UNION {Kids(ch, m) : m \in set}, k - 1)

\* the nodes reachable from n over one or more child links
Descendants(ch, n) == Closure(ch, Kids(ch, n), NumNodes)

ReachSet(ch, r) == {r} \cup Descendants(ch, r)

Acyclic(ch, r) == \A n \in ReachSet(ch, r) : n \notin Descendants(ch, n)

ParentSet(ch, r, n) == {p \in ReachSet(ch, r) : n \in Kids(ch, p)}

\* ------------------------------------------------------------------------
\* Node types.  A node is a leaf iff its class derives from ILeafNode.
\* ------------------------------------------------------------------------
NodeTypes == {"IProductNode", "Gaussian"}

IsLeafType(t) == t \in {"Gaussian", "ILeafNode"}

VARIABLES
    children,        \* node -> list of child nodes (INode.children)
    ntype,           \* node -> concrete class of the node
    eval_functions,  \* set of classes with a registered handler (dict keys)
    op,              \* the function that was called
    pc,              \* position inside the call
    nodes,           \* get_nodes_by_type(node)
    parents,         \* node -> list of parents, one entry per child occurrence
    in_degree,       \* node -> remaining number of unprocessed child occurrences
    S,               \* deque of nodes without unprocessed children
    L,               \* sorted list (flat) or list of layers (layered)
    added_nodes,     \* layered sort: number of nodes put into layers
    idx,             \* evaluators: number of loop iterations done
    order,           \* evaluators: the node sequence the loop iterates
    tmp_children_list, \* bottom-up: the reused argument buffer
    all_results,     \* evaluators: the result map (dict keyed by node)
    supplied,        \* bottom-up: the all_results argument as the caller passed it
    returned,        \* top-down: node -> what its handler returned
    calls,           \* log of handler invocations
    ret,             \* the value returned or the exception raised by the call
    leaf,            \* a parametric leaf object: class, scope, attributes
    call,            \* the last call on the leaf: function, arguments, outcome
    rat,             \* a RatSpn: network_type and output_nodes
    data,            \* the data matrix, a list of rows
    target,          \* what likelihood / log_likelihood are called on
    probs,           \* outcome of the likelihood call
    log_probs,       \* outcome of the log-likelihood call
    node_scope,      \* node -> list of variable indices (INode.scope)
    id,              \* node -> INode.id
    id_log,          \* the ids as they were after each call of set_node_ids
    bfs_seen,        \* bfs: the set of nodes already enqueued
    bfs_queue,       \* bfs, _get_node_counts: the nodes still to visit
    bfs_visited      \* bfs: the nodes func was called on, in call order;
                     \* _get_node_counts: the nodes counted, in order

vars == <<children, ntype, eval_functions, op, pc, nodes, parents, in_degree,
          S, L, added_nodes, idx, order, tmp_children_list, all_results,
          supplied, returned, calls, ret, leaf, call, rat, data, target, probs, log_probs,
          node_scope, id, id_log, bfs_seen, bfs_queue, bfs_visited>>

graphVars == <<children, ntype, eval_functions>>
leafVars == <<leaf, call>>
inferenceVars == <<rat, data, target, probs, log_probs>>
sortVars == <<nodes, parents, in_degree, S, L, added_nodes>>
evalVars == <<idx, order, tmp_children_list, all_results, supplied, returned, calls>>
attrVars == <<node_scope, id, id_log>>
bfsVars == <<bfs_seen, bfs_queue, bfs_visited>>

\* ------------------------------------------------------------------------
\* bfs / get_nodes_by_type
\* ------------------------------------------------------------------------
RECURSIVE SameStructure(_, _, _)
\* a and b have the same class, scope and child structure down to depth k
SameStructure(a, b, k) ==
    /\ ntype[a] = ntype[b]
    /\ node_scope[a] = node_scope[b]
    /\ Len(children[a]) = Len(children[b])
    /\ k = 0 \/ \A i \in DOMAIN children[a] :
                   SameStructure(children[a][i], children[b][i], k - 1)

RECURSIVE EnqueueUnseen_byEquality(_, _, _)
\* (variant: a child is skipped when a node equal to it was seen)
EnqueueUnseen_byEquality(cs, seen, queue) ==
    IF cs = <<>> THEN [seen |-> seen, queue |-> queue]
    ELSE IF \E s \in seen : SameStructure(Head(cs), s, NumNodes)
         THEN EnqueueUnseen_byEquality(Tail(cs), seen, queue)
         ELSE EnqueueUnseen_byEquality(Tail(cs), seen \cup {Head(cs)},
                                       Append(queue, Head(cs)))

RECURSIVE EnqueueUnseen(_, _, _)
\* for c in node.children: if c not in seen: seen.add(c); queue.append(c)
EnqueueUnseen(cs, seen, queue) ==
    IF cs = <<>> THEN [seen |-> seen, queue |-> queue]
    ELSE IF Head(cs) \in seen
         THEN EnqueueUnseen(Tail(cs), seen, queue)
         ELSE EnqueueUnseen(Tail(cs), seen \cup {Head(cs)}, Append(queue, Head(cs)))

RECURSIVE bfsLoop(_, _, _, _, _)
\* while queue: node = queue.popleft(); func(node); enqueue unseen children
bfsLoop(ch, ty, seen, queue, visited) ==
    IF queue = <<>> THEN visited
    ELSE LET node == Head(queue)
             e == IF IsLeafType(ty[node])
                  THEN [seen |-> seen, queue |-> Tail(queue)]
                  ELSE EnqueueUnseen(ch[node], seen, Tail(queue))
         IN bfsLoop(ch, ty, e.seen, e.queue, Append(visited, node))

\* the sequence of nodes func is called on
bfs(ch, ty, r) == bfsLoop(ch, ty, {r}, <<r>>, <<>>)

\* get_nodes_by_type(node) with the default ntype=INode: every visited node
get_nodes_by_type(ch, ty, r) == bfs(ch, ty, r)

\* ------------------------------------------------------------------------
\* The reverse adjacency and the in-degrees built by both sorts
\* ------------------------------------------------------------------------
\* (variant: a parent is recorded once however often the child occurs)
Occurrences_once(cs, c, n) == IF c \in Range(cs) THEN <<n>> ELSE <<>>

RECURSIVE Occurrences(_, _, _)
\* one entry n per occurrence of c in the child list cs of n
Occurrences(cs, c, n) ==
    IF cs = <<>> THEN <<>>
    ELSE (IF Head(cs) = c THEN <<n>> ELSE <<>>) \o Occurrences(Tail(cs), c, n)

RECURSIVE ParentList(_, _, _, _)
\* parents[c]: for n in nodes: if n is no leaf: for each c in n.children: append n
ParentList(ch, ty, ns, c) ==
    IF ns = <<>> THEN <<>>
    ELSE (IF IsLeafType(ty[Head(ns)]) THEN <<>> ELSE Occurrences(ch[Head(ns)], c, Head(ns)))
         \o ParentList(ch, ty, Tail(ns), c)

BuildParents(ch, ty, ns) == [c \in Range(ns) |-> ParentList(ch, ty, ns, c)]

\* (variant: a repeated child counts once)
InDegreeOf_distinct(ch, ty, n) == IF IsLeafType(ty[n]) THEN 0 ELSE Cardinality(Kids(ch, n))

\* in_degree[n] += 1 for every entry of n.children (leaves stay at 0)
InDegreeOf(ch, ty, n) == IF IsLeafType(ty[n]) THEN 0 ELSE Len(ch[n])

BuildInDegree(ch, ty, ns) == [n \in Range(ns) |-> InDegreeOf(ch, ty, n)]

\* for u in in_degree: if in_degree[u] == 0: S.appendleft(u)
RECURSIVE InitialS(_, _)
InitialS(ns, deg) ==
    IF ns = <<>> THEN <<>>
    ELSE InitialS(Tail(ns), deg) \o (IF deg[Head(ns)] = 0 THEN <<Head(ns)>> ELSE <<>>)

\* for u in in_degree: if in_degree[u] == 0: layer.append(u)
InitialLayer(ns, deg) == SelectSeq(ns, LAMBDA u : deg[u] = 0)

RECURSIVE RemoveEdges(_, _, _)
\* for m in parents[n]: in_degree[m] -= 1; if it became 0, m is released.
\* Returns the new in-degrees and the released nodes in release order.
RemoveEdges(ps, deg, released) ==
    IF ps = <<>> THEN [deg |-> deg, released |-> released]
    ELSE LET m == Head(ps)
             d == deg[m] - 1
         IN RemoveEdges(Tail(ps), [deg EXCEPT ![m] = d],
                        IF d = 0 THEN Append(released, m) ELSE released)

\* one iteration of `while S:` of get_topological_order
KahnIter(st, par) ==
    LET n == Last(st.S)
        r == RemoveEdges(par[n], st.deg, <<>>)
    IN [S |-> Reverse(r.released) \o SubSeq(st.S, 1, Len(st.S) - 1),
        L |-> Append(st.L, n),
        deg |-> r.deg]

\* one iteration of `while True:` of get_topological_order_layers: the new
\* layer released by the nodes of the last layer, and the new in-degrees
LayerIter(last, deg, par) ==
    RemoveEdges(Flatten([i \in DOMAIN last |-> par[last[i]]]), deg, <<>>)

\* (variant: the assertion is compiled away)
CoversAllNodes_off(added, ns) == TRUE

\* assert len(L) == len(nodes), "Graph is not DAG, it has at least one cycle"
CoversAllNodes(added, ns) == added = Len(ns)


\* ------------------------------------------------------------------------
\* get_topological_order / get_topological_order_layers as functions of the
\* graph (used by the evaluators and set_node_ids)
\* ------------------------------------------------------------------------
RECURSIVE KahnRun(_, _)
KahnRun(st, par) == IF st.S = <<>> THEN st ELSE KahnRun(KahnIter(st, par), par)

get_topological_order(ch, ty, r) ==
    LET ns == get_nodes_by_type(ch, ty, r)
        par == BuildParents(ch, ty, ns)
        deg == BuildInDegree(ch, ty, ns)
        fin == KahnRun([S |-> InitialS(ns, deg), L |-> <<>>, deg |-> deg], par)
    IN IF CoversAllNodes(Len(fin.L), ns)
       THEN [kind |-> "value", value |-> fin.L]
       ELSE [kind |-> "exception", exc |-> "AssertionError"]

RECURSIVE LayerRun(_, _, _, _)
LayerRun(layers, added, deg, par) ==
    LET r == LayerIter(Last(layers), deg, par)
    IN IF r.released = <<>>
       THEN [L |-> layers, added |-> added]
       ELSE LayerRun(Append(layers, r.released), added + Len(r.released), r.deg, par)

get_topological_order_layers(ch, ty, r) ==
    LET ns == get_nodes_by_type(ch, ty, r)
        par == BuildParents(ch, ty, ns)
        deg == BuildInDegree(ch, ty, ns)
        first == InitialLayer(ns, deg)
        fin == LayerRun(<<first>>, Len(first), deg, par)
    IN IF CoversAllNodes(fin.added, ns)
       THEN [kind |-> "value", value |-> fin.L]
       ELSE [kind |-> "exception", exc |-> "AssertionError"]

\* ------------------------------------------------------------------------
\* Graphs.  Every node starts as a leaf (ILeafNode.__init__ passes
\* children=[]); the nodes in reach of the root are made internal and given
\* children one by one, a child may be given repeatedly.
\* ------------------------------------------------------------------------
NoGraph ==
    /\ children = [n \in Nodes |-> <<>>]
    /\ ntype = [n \in Nodes |-> "Gaussian"]
    /\ node_scope = [n \in Nodes |-> <<(n \div 2) % NumVars>>]
    /\ id = [n \in Nodes |-> -1]

\* INode.__init__ of an internal class, children still empty
NewInternal(n) ==
    /\ pc = "idle"
    /\ n \in ReachSet(children, root)
    /\ ntype[n] = "Gaussian"
    /\ ntype' = [ntype EXCEPT ![n] = "IProductNode"]
    /\ UNCHANGED <<attrVars, bfsVars, leafVars, inferenceVars, children, eval_functions, op, pc, sortVars,
                   evalVars, ret>>

\* one more entry of the child list of an internal node
AddChild(n, c) ==
    /\ pc = "idle"
    /\ n \in ReachSet(children, root)
    /\ ~IsLeafType(ntype[n])
    /\ SumLen(children, Nodes) < MaxEdges
    /\ children' = [children EXCEPT ![n] = Append(@, c)]
    /\ UNCHANGED <<attrVars, bfsVars, leafVars, inferenceVars, ntype, eval_functions, op, pc, sortVars,
                   evalVars, ret>>

\* any graph, cyclic ones included: child lists are mutable attributes
BuildAny == \E n \in Nodes : NewInternal(n) \/ \E c \in Nodes : AddChild(n, c)

\* graphs as the constructors build them: a node's children exist before the
\* node, so the nodes can be numbered parents-first and the graph is acyclic
BuildConstructed ==
    \E n \in Nodes : NewInternal(n) \/ \E c \in Nodes : c > n /\ AddChild(n, c)

\* ------------------------------------------------------------------------
\* Floating-point values: finite numbers in quarters (q = 6 is 1.5), the
\* infinities, NaN; None and "attribute not set" for object attributes
\* ------------------------------------------------------------------------
Num(q) == [k |-> "num", q |-> q]
NaN == [k |-> "nan", q |-> 0]
PosInf == [k |-> "inf", q |-> 1]
NegInf == [k |-> "inf", q |-> -1]
None == [k |-> "none", q |-> 0]
Unset == [k |-> "unset", q |-> 0]

\* np.isnan, np.isfinite
IsNaN(x) == x.k = "nan"
IsFinite(x) == x.k = "num"
IsInteger(x) == x.k = "num" /\ x.q % 4 = 0

\* IEEE comparisons: every comparison with NaN is false
Ext(x) == IF x.k = "inf" THEN x.q * 1000000 ELSE x.q
Lt(x, y) == ~IsNaN(x) /\ ~IsNaN(y) /\ Ext(x) < Ext(y)
Gt(x, y) == Lt(y, x)
Le(x, y) == ~IsNaN(x) /\ ~IsNaN(y) /\ Ext(x) <= Ext(y)
Ge(x, y) == Le(y, x)

NoOutcome == [kind |-> "none"]
Value(v) == [kind |-> "value", value |-> v]
Raise(e) == [kind |-> "exception", exc |-> e]

NoLeaf ==
    /\ leaf = [class |-> "none"]
    /\ call = [op |-> "none"]

NoInference ==
    /\ rat = [network_type |-> "none", output_nodes |-> <<>>]
    /\ data = <<>>
    /\ target = 0
    /\ probs = NoOutcome
    /\ log_probs = NoOutcome

NoCall ==
    /\ op = "none" /\ pc = "idle"
    /\ nodes = <<>> /\ parents = <<>> /\ in_degree = <<>>
    /\ S = <<>> /\ L = <<>> /\ added_nodes = 0
    /\ idx = 0 /\ order = <<>> /\ tmp_children_list = <<>>
    /\ all_results = <<>> /\ returned = <<>> /\ calls = <<>>
    /\ supplied = [is_none |-> TRUE, map |-> <<>>]
    /\ ret = [kind |-> "none"]
    /\ id_log = <<>>
    /\ bfs_seen = {} /\ bfs_queue = <<>> /\ bfs_visited = <<>>

\* ------------------------------------------------------------------------
\* get_topological_order, one action per iteration of `while S:`
\* ------------------------------------------------------------------------
TopoCall ==
    /\ pc = "idle"
    /\ op' = "get_topological_order"
    /\ nodes' = get_nodes_by_type(children, ntype, root)
    /\ parents' = BuildParents(children, ntype, nodes')
    /\ in_degree' = BuildInDegree(children, ntype, nodes')
    /\ S' = InitialS(nodes', in_degree')
    /\ L' = <<>>
    /\ pc' = "kahn"
    /\ UNCHANGED <<leafVars, inferenceVars, graphVars, attrVars, bfsVars, added_nodes, evalVars, ret>>

\* (variant: "remove edge e from the graph" is done on the child lists)
TopoStep_removeEdges ==
    /\ pc = "kahn" /\ S # <<>>
    /\ LET st == KahnIter([S |-> S, L |-> L, deg |-> in_degree], parents)
       IN /\ S' = st.S
          /\ L' = st.L
          /\ in_degree' = st.deg
    /\ children' = [m \in Nodes |-> SelectSeq(children[m], LAMBDA c : c # Last(S))]
    /\ UNCHANGED <<leafVars, inferenceVars, ntype, eval_functions, attrVars, bfsVars, op, pc,
                   nodes, parents, added_nodes, evalVars, ret>>

TopoStep ==
    /\ pc = "kahn" /\ S # <<>>
    /\ LET st == KahnIter([S |-> S, L |-> L, deg |-> in_degree], parents)
       IN /\ S' = st.S
          /\ L' = st.L
          /\ in_degree' = st.deg
    /\ UNCHANGED <<leafVars, inferenceVars, graphVars, attrVars, bfsVars, op, pc, nodes, parents, added_nodes, evalVars, ret>>

TopoExit ==
    /\ pc = "kahn" /\ S = <<>>
    /\ IF CoversAllNodes(Len(L), nodes)
       THEN pc' = "returned" /\ ret' = [kind |-> "value", value |-> L]
       ELSE pc' = "raised" /\ ret' = [kind |-> "exception", exc |-> "AssertionError"]
    /\ UNCHANGED <<leafVars, inferenceVars, graphVars, attrVars, bfsVars, op, sortVars, evalVars>>

\* ------------------------------------------------------------------------
\* get_topological_order_layers, one action per iteration of `while True:`
\* ------------------------------------------------------------------------
LayersCall ==
    /\ pc = "idle"
    /\ op' = "get_topological_order_layers"
    /\ nodes' = get_nodes_by_type(children, ntype, root)
    /\ parents' = BuildParents(children, ntype, nodes')
    /\ in_degree' = BuildInDegree(children, ntype, nodes')
    /\ L' = <<InitialLayer(nodes', in_degree')>>
    /\ added_nodes' = Len(L'[1])
    /\ pc' = "layers"
    /\ UNCHANGED <<leafVars, inferenceVars, graphVars, attrVars, bfsVars, S, evalVars, ret>>

LayersStep ==
    /\ pc = "layers"
    /\ LET r == LayerIter(Last(L), in_degree, parents)
       IN /\ in_degree' = r.deg
          /\ IF r.released = <<>>
             THEN /\ UNCHANGED <<L, added_nodes>>
                  /\ IF CoversAllNodes(added_nodes, nodes)
                     THEN pc' = "returned" /\ ret' = [kind |-> "value", value |-> L]
                     ELSE pc' = "raised"
                          /\ ret' = [kind |-> "exception", exc |-> "AssertionError"]
             ELSE /\ L' = Append(L, r.released)
                  /\ added_nodes' = added_nodes + Len(r.released)
                  /\ UNCHANGED <<pc, ret>>
    /\ UNCHANGED <<leafVars, inferenceVars, graphVars, attrVars, bfsVars, op, nodes, parents, S, evalVars>>

InitSort ==
    /\ NoGraph /\ NoLeaf /\ NoInference
    /\ eval_functions = {}
    /\ NoCall

NextSort == BuildAny \/ TopoCall \/ TopoStep \/ TopoExit \/ LayersCall \/ LayersStep

SpecSort == InitSort /\ [][NextSort]_vars

\* the scheduling of a synchronous call: a started call keeps running
FairSort == SpecSort /\ WF_vars(TopoStep) /\ WF_vars(TopoExit) /\ WF_vars(LayersStep)

\* ------------------------------------------------------------------------
\* bfs(root, func), one action per iteration of `while queue:`; bfs_visited
\* is the sequence of calls of func
\* ------------------------------------------------------------------------
BfsCall ==
    /\ pc = "idle"
    /\ op' = "bfs"
    /\ bfs_seen' = {root}
    /\ bfs_queue' = <<root>>
    /\ bfs_visited' = <<>>
    /\ pc' = "bfs"
    /\ UNCHANGED <<leafVars, inferenceVars, graphVars, attrVars, sortVars, evalVars, ret>>

BfsStep ==
    /\ pc = "bfs" /\ bfs_queue # <<>>
    /\ LET node == Head(bfs_queue)
           e == IF IsLeafType(ntype[node])
                THEN [seen |-> bfs_seen, queue |-> Tail(bfs_queue)]
                ELSE EnqueueUnseen(children[node], bfs_seen, Tail(bfs_queue))
       IN /\ bfs_visited' = Append(bfs_visited, node)
          /\ bfs_seen' = e.seen
          /\ bfs_queue' = e.queue
    /\ UNCHANGED <<leafVars, inferenceVars, graphVars, attrVars, op, pc, sortVars, evalVars, ret>>

BfsExit ==
    /\ pc = "bfs" /\ bfs_queue = <<>>
    /\ pc' = "returned"
    /\ ret' = [kind |-> "value", value |-> None]
    /\ UNCHANGED <<leafVars, inferenceVars, graphVars, attrVars, bfsVars, op, sortVars, evalVars>>

NextBfs == BuildAny \/ BfsCall \/ BfsStep \/ BfsExit

SpecBfs == InitSort /\ [][NextBfs]_vars

\* a started traversal keeps running
FairBfs == SpecBfs /\ WF_vars(BfsStep) /\ WF_vars(BfsExit)

\* ------------------------------------------------------------------------
\* set_node_ids(root)
\* ------------------------------------------------------------------------
\* calls of set_node_ids made on one graph
MaxCalls == 2

RECURSIVE Max(_)
Max(set) == LET x == CHOOSE x \in set : TRUE
            IN IF set = {x} THEN x
               ELSE LET m == Max(set \ {x}) IN IF x > m THEN x ELSE m

\* (variant: the counter goes on from the largest id in the graph)
FirstId_continue(ids) == Max({ids[n] : n \in Nodes}) + 1

\* i = 0
FirstId(ids) == 0

RECURSIVE AssignIds_reversed(_, _, _)
\* (variant: the counter runs down, the first node of the order gets the
\* largest id)
AssignIds_reversed(ord, ids, i) ==
    IF ord = <<>> THEN ids
    ELSE AssignIds_reversed(Tail(ord), [ids EXCEPT ![Head(ord)] = i + Len(ord) - 1], i)

RECURSIVE AssignIds(_, _, _)
\* for node in order: node.id = i; i += 1
AssignIds(ord, ids, i) ==
    IF ord = <<>> THEN ids
    ELSE AssignIds(Tail(ord), [ids EXCEPT ![Head(ord)] = i], i + 1)

\* the ids after the call, or the exception of get_topological_order
set_node_ids(ch, ty, r, ids) ==
    LET o == get_topological_order(ch, ty, r)
    IN IF o.kind = "value"
       THEN [kind |-> "value", ids |-> AssignIds(o.value, ids, FirstId(ids))]
       ELSE o

\* one call; the graph is left as it is from the first call on
SetNodeIds ==
    /\ pc \in {"idle", "returned"}
    /\ Len(id_log) < MaxCalls
    /\ op' = "set_node_ids"
    /\ LET res == set_node_ids(children, ntype, root, id)
       IN IF res.kind = "value"
          THEN /\ id' = res.ids
               /\ id_log' = Append(id_log, res.ids)
               /\ pc' = "returned"
               /\ ret' = [kind |-> "value", value |-> None]
          ELSE /\ UNCHANGED <<id, id_log>>
               /\ pc' = "raised"
               /\ ret' = res
    /\ UNCHANGED <<leafVars, inferenceVars, graphVars, node_scope, bfsVars, sortVars, evalVars>>

NextLabel == BuildAny \/ SetNodeIds

SpecLabel == InitSort /\ [][NextLabel]_vars


\* ------------------------------------------------------------------------
\* eval_spn_bottom_up
\* ------------------------------------------------------------------------
\* the classes a caller may register a handler for
HandlerKeys == {"IProductNode", "Gaussian", "ILeafNode"}

\* what a handler returns: any function of the node and of the arguments it got
HandlerResult(n, args) == <<n, args>>

\* the None entries tmp_children_list is padded with
NoneResult == <<0, <<>>>>

RECURSIVE PostOrder(_, _)
PostOrder(ch, n) ==
    Flatten([i \in DOMAIN ch[n] |-> PostOrder(ch, ch[n][i])]) \o <<n>>

\* (variant: the graph is walked as a tree, shared children once per parent)
bu_nodes_tree(ch, ty, r) == [kind |-> "value", value |-> PostOrder(ch, r)]

\* nodes = get_topological_order(node)
bu_nodes(ch, ty, r) == get_topological_order(ch, ty, r)

\* (variant: the ILeafNode handler is preferred for a leaf)
ResolveBottomUp_leafFirst(t, funcs) ==
    IF IsLeafType(t) /\ "ILeafNode" \in funcs
    THEN [found |-> TRUE, func |-> "ILeafNode", n_is_leaf |-> TRUE]
    ELSE IF t \in funcs THEN [found |-> TRUE, func |-> t, n_is_leaf |-> IsLeafType(t)]
         ELSE [found |-> FALSE]

\* func and n_is_leaf of a node of class t: the handler of the exact class,
\* else the ILeafNode handler for a leaf, else no handler
ResolveBottomUp(t, funcs) ==
    IF t \in funcs THEN [found |-> TRUE, func |-> t, n_is_leaf |-> IsLeafType(t)]
    ELSE IF IsLeafType(t) /\ "ILeafNode" \in funcs
         THEN [found |-> TRUE, func |-> "ILeafNode", n_is_leaf |-> TRUE]
         ELSE [found |-> FALSE]

\* if len_tmp_children_list < len_children: tmp_children_list.extend([None] * len_children)
ExtendTmp(tmp, len_children) ==
    IF Len(tmp) < len_children
    THEN tmp \o [i \in 1..len_children |-> NoneResult]
    ELSE tmp

\* for i in range(len_children): tmp_children_list[i] = all_results[n.children[i]]
FillTmp(tmp, cs, res) ==
    [i \in DOMAIN tmp |-> IF i <= Len(cs) THEN res[cs[i]] ELSE tmp[i]]

\* (variant: the whole buffer is passed)
ChildrenArg_whole(tmp, len_children) == tmp

\* tmp_children_list[0:len_children]
ChildrenArg(tmp, len_children) == SubSeq(tmp, 1, len_children)

\* all_results=None
NoMap == [is_none |-> TRUE, map |-> <<>>]

\* all_results=m
Supplied(m) == [is_none |-> FALSE, map |-> m]

\* an entry left in the map by an earlier call: a result no handler of this
\* call returns
Stale(n) == HandlerResult(n, <<NoneResult>>)

\* the maps a caller passes: empty, or with an entry for every node
SuppliedMaps == {Supplied([n \in K |-> Stale(n)]) : K \in {{}, Nodes}}

\* (variant: the map is used as it is)
Clear_keep(m) == m

\* all_results.clear()
Clear(m) == <<>>

\* if all_results is None: all_results = {}  else: all_results.clear()
EntryResults(arg) == IF arg.is_none THEN <<>> ELSE Clear(arg.map)

BottomUpCall ==
    /\ pc = "idle"
    /\ op' = "eval_spn_bottom_up"
    /\ \E arg \in SuppliedMaps \cup {NoMap} :
          /\ supplied' = arg
          /\ all_results' = EntryResults(arg)
    /\ LET r == bu_nodes(children, ntype, root)
       IN IF r.kind = "exception"
          THEN pc' = "raised" /\ ret' = r /\ UNCHANGED order
          ELSE pc' = "bu_loop" /\ order' = r.value /\ UNCHANGED ret
    /\ tmp_children_list' = <<>>
    /\ idx' = 0
    /\ calls' = <<>>
    /\ UNCHANGED <<leafVars, inferenceVars, graphVars, attrVars, bfsVars, sortVars, returned>>

BottomUpStep ==
    /\ pc = "bu_loop" /\ idx < Len(order)
    /\ idx' = idx + 1
    /\ LET n == order[idx + 1]
           h == ResolveBottomUp(ntype[n], eval_functions)
       IN IF ~h.found
          THEN /\ pc' = "raised"
               /\ ret' = [kind |-> "exception", exc |-> "AssertionError"]
               /\ UNCHANGED <<tmp_children_list, all_results, calls>>
          ELSE IF h.n_is_leaf
          THEN /\ calls' = Append(calls, [node |-> n, func |-> h.func,
                                          with_children |-> FALSE, args |-> <<>>])
               /\ all_results' = (n :> HandlerResult(n, <<>>)) @@ all_results
               /\ UNCHANGED <<pc, ret, tmp_children_list>>
          ELSE IF \E i \in DOMAIN children[n] : children[n][i] \notin DOMAIN all_results
          THEN /\ pc' = "raised"
               /\ ret' = [kind |-> "exception", exc |-> "KeyError"]
               /\ UNCHANGED <<tmp_children_list, all_results, calls>>
          ELSE LET tmp == FillTmp(ExtendTmp(tmp_children_list, Len(children[n])),
                                  children[n], all_results)
                   arg == ChildrenArg(tmp, Len(children[n]))
               IN /\ tmp_children_list' = tmp
                  /\ calls' = Append(calls, [node |-> n, func |-> h.func,
                                             with_children |-> TRUE, args |-> arg])
                  /\ all_results' = (n :> HandlerResult(n, arg)) @@ all_results
                  /\ UNCHANGED <<pc, ret>>
    /\ UNCHANGED <<leafVars, inferenceVars, graphVars, attrVars, bfsVars, op, sortVars, order, supplied, returned>>

BottomUpExit ==
    /\ pc = "bu_loop" /\ idx = Len(order)
    /\ IF root \in DOMAIN all_results
       THEN pc' = "returned" /\ ret' = [kind |-> "value", value |-> all_results[root]]
       ELSE pc' = "raised" /\ ret' = [kind |-> "exception", exc |-> "KeyError"]
    /\ UNCHANGED <<leafVars, inferenceVars, graphVars, attrVars, bfsVars, op, sortVars, evalVars>>

InitEval ==
    /\ NoGraph /\ NoLeaf /\ NoInference
    /\ eval_functions \in SUBSET HandlerKeys
    /\ NoCall

NextBottomUp == BuildConstructed \/ BottomUpCall \/ BottomUpStep \/ BottomUpExit

SpecBottomUp == InitEval /\ [][NextBottomUp]_vars

\* ------------------------------------------------------------------------
\* eval_spn_top_down
\* ------------------------------------------------------------------------
\* the message an internal handler of node p returns for the child c
Message(p, c) == [from |-> p, to |-> c]

\* the initial input to the root node
parent_result == [from |-> 0, to |-> root]

\* (variant: the nodes are processed in breadth-first order)
td_nodes_bfs(ch, ty, r) == [kind |-> "value", value |-> bfs(ch, ty, r)]

\* for layer in reversed(get_topological_order_layers(root)): for n in layer
td_nodes(ch, ty, r) ==
    LET l == get_topological_order_layers(ch, ty, r)
    IN IF l.kind = "exception" THEN l
       ELSE [kind |-> "value", value |-> Flatten(Reverse(l.value))]

\* (variant: the handler of the exact class is preferred, as bottom-up)
ResolveTopDown_exactFirst(t, funcs) ==
    IF t \in funcs THEN [found |-> TRUE, func |-> t]
    ELSE IF IsLeafType(t) /\ "ILeafNode" \in funcs
         THEN [found |-> TRUE, func |-> "ILeafNode"]
         ELSE [found |-> FALSE]

\* the handler of a node of class t: the ILeafNode handler for a leaf when
\* there is one, else eval_functions[type(n)]
ResolveTopDown(t, funcs) ==
    IF IsLeafType(t) /\ "ILeafNode" \in funcs
    THEN [found |-> TRUE, func |-> "ILeafNode"]
    ELSE IF t \in funcs THEN [found |-> TRUE, func |-> t]
         ELSE [found |-> FALSE]

\* what the handler of n may return: None, or a dict keyed by children of n
\* and, when it breaks its contract, by a node that is no child of n (the
\* root, which no node of an acyclic graph has as a child); a leaf handler
\* returns None or a dict with an entry for the root
HandlerReturns(ch, ty, n) ==
    IF IsLeafType(ty[n])
    THEN {[is_none |-> TRUE, keys |-> {}], [is_none |-> FALSE, keys |-> {root}]}
    ELSE {[is_none |-> TRUE, keys |-> {}]}
         \cup {[is_none |-> FALSE, keys |-> K] : K \in SUBSET (Kids(ch, n) \cup {root})}

\* (variant: the list of a child is started anew by every parent)
PushMessages_reset(res, n, keys) ==
    [c \in DOMAIN res \cup keys |->
        IF c \in keys THEN <<Message(n, c)>> ELSE res[c]]

\* for child, param in result.items():
\*     if child not in all_results: all_results[child] = []
\*     all_results[child].append(param)
PushMessages(res, n, keys) ==
    [c \in DOMAIN res \cup keys |->
        IF c \in keys
        THEN Append(IF c \in DOMAIN res THEN res[c] ELSE <<>>, Message(n, c))
        ELSE res[c]]

\* (variant: every node starts with an empty message list)
TopDownCall_prefilled ==
    /\ pc = "idle"
    /\ op' = "eval_spn_top_down"
    /\ all_results' = [n \in Nodes |-> IF n = root THEN <<parent_result>> ELSE <<>>]
    /\ LET r == td_nodes(children, ntype, root)
       IN IF r.kind = "exception"
          THEN pc' = "raised" /\ ret' = r /\ UNCHANGED order
          ELSE pc' = "td_loop" /\ order' = r.value /\ UNCHANGED ret
    /\ idx' = 0
    /\ calls' = <<>>
    /\ returned' = <<>>
    /\ UNCHANGED <<leafVars, inferenceVars, graphVars, attrVars, bfsVars, sortVars, tmp_children_list, supplied>>

TopDownCall ==
    /\ pc = "idle"
    /\ op' = "eval_spn_top_down"
    /\ all_results' = (root :> <<parent_result>>)
    /\ LET r == td_nodes(children, ntype, root)
       IN IF r.kind = "exception"
          THEN pc' = "raised" /\ ret' = r /\ UNCHANGED order
          ELSE pc' = "td_loop" /\ order' = r.value /\ UNCHANGED ret
    /\ idx' = 0
    /\ calls' = <<>>
    /\ returned' = <<>>
    /\ UNCHANGED <<leafVars, inferenceVars, graphVars, attrVars, bfsVars, sortVars, tmp_children_list, supplied>>

\* (variant: what a leaf handler returns is propagated as well)
TopDownStep_leafResults ==
    /\ pc = "td_loop" /\ idx < Len(order)
    /\ idx' = idx + 1
    /\ LET n == order[idx + 1]
           h == ResolveTopDown(ntype[n], eval_functions)
       IN IF ~h.found \/ n \notin DOMAIN all_results
          THEN /\ pc' = "raised"
               /\ ret' = [kind |-> "exception", exc |-> "KeyError"]
               /\ UNCHANGED <<all_results, calls, returned>>
          ELSE \E result \in HandlerReturns(children, ntype, n) :
               /\ calls' = Append(calls, [node |-> n, func |-> h.func,
                                          with_children |-> FALSE,
                                          args |-> all_results[n]])
               /\ returned' = (n :> result) @@ returned
               /\ all_results' =
                     IF ~result.is_none
                     THEN PushMessages(all_results, n, result.keys)
                     ELSE all_results
               /\ UNCHANGED <<pc, ret>>
    /\ UNCHANGED <<leafVars, inferenceVars, graphVars, attrVars, bfsVars, op, sortVars, order, tmp_children_list, supplied>>

TopDownStep ==
    /\ pc = "td_loop" /\ idx < Len(order)
    /\ idx' = idx + 1
    /\ LET n == order[idx + 1]
           h == ResolveTopDown(ntype[n], eval_functions)
       IN IF ~h.found \/ n \notin DOMAIN all_results
          THEN /\ pc' = "raised"
               /\ ret' = [kind |-> "exception", exc |-> "KeyError"]
               /\ UNCHANGED <<all_results, calls, returned>>
          ELSE \E result \in HandlerReturns(children, ntype, n) :
               /\ calls' = Append(calls, [node |-> n, func |-> h.func,
                                          with_children |-> FALSE,
                                          args |-> all_results[n]])
               /\ returned' = (n :> result) @@ returned
               /\ all_results' =
                     IF ~result.is_none /\ ~IsLeafType(ntype[n])
                     THEN PushMessages(all_results, n, result.keys)
                     ELSE all_results
               /\ UNCHANGED <<pc, ret>>
    /\ UNCHANGED <<leafVars, inferenceVars, graphVars, attrVars, bfsVars, op, sortVars, order, tmp_children_list, supplied>>

TopDownExit ==
    /\ pc = "td_loop" /\ idx = Len(order)
    /\ pc' = "returned"
    /\ ret' = [kind |-> "value", value |-> all_results[root]]
    /\ UNCHANGED <<leafVars, inferenceVars, graphVars, attrVars, bfsVars, op, sortVars, evalVars>>

NextTopDown == BuildConstructed \/ TopDownCall \/ TopDownStep \/ TopDownExit

SpecTopDown == InitEval /\ [][NextTopDown]_vars

\* ------------------------------------------------------------------------
\* Sum and product nodes with declared scopes, traversed and evaluated
\* ------------------------------------------------------------------------
InternalTypes == {"IProductNode", "ISumNode"}

\* the scope lists handed to the constructors of internal nodes
ScopeLists == {<<v>> : v \in 0..(NumVars - 1)} \cup {<<0, 1>>}

\* IProductNode(children, scope) / ISumNode(children, scope): the constructor
\* stores what it is given (the child list is filled in by AddChild)
NewScoped(n, t, sc) ==
    /\ pc = "idle"
    /\ n \in ReachSet(children, root)
    /\ ntype[n] = "Gaussian"
    /\ ntype' = [ntype EXCEPT ![n] = t]
    /\ node_scope' = [node_scope EXCEPT ![n] = sc]
    /\ UNCHANGED <<bfsVars, leafVars, inferenceVars, children, eval_functions, id, id_log,
                   op, pc, sortVars, evalVars, ret>>

BuildScoped ==
    \E n \in Nodes :
       \/ \E t \in InternalTypes, sc \in ScopeLists : NewScoped(n, t, sc)
       \/ \E c \in Nodes : c > n /\ AddChild(n, c)

InitStructure ==
    /\ NoGraph /\ NoLeaf /\ NoInference
    /\ eval_functions = HandlerKeys \cup InternalTypes
    /\ NoCall

NextStructure ==
    \/ BuildScoped
    \/ TopoCall \/ TopoStep \/ TopoExit
    \/ LayersCall \/ LayersStep
    \/ BottomUpCall \/ BottomUpStep \/ BottomUpExit

SpecStructure == InitStructure /\ [][NextStructure]_vars

\* ------------------------------------------------------------------------
\* The traversals and evaluators side by side on the same graphs
\* ------------------------------------------------------------------------
\* get_nodes_by_type(node): bfs with a func that collects the nodes
GetNodesByType ==
    /\ pc = "idle"
    /\ op' = "get_nodes_by_type"
    /\ pc' = "returned"
    /\ ret' = [kind |-> "value", value |-> get_nodes_by_type(children, ntype, root)]
    /\ UNCHANGED <<leafVars, inferenceVars, graphVars, attrVars, bfsVars, sortVars, evalVars>>

NextFrame ==
    \/ BuildConstructed
    \/ GetNodesByType
    \/ BfsCall \/ BfsStep \/ BfsExit
    \/ TopoCall \/ TopoStep \/ TopoExit
    \/ LayersCall \/ LayersStep
    \/ BottomUpCall \/ BottomUpStep \/ BottomUpExit
    \/ TopDownCall \/ TopDownStep \/ TopDownExit

SpecFrame == InitStructure /\ [][NextFrame]_vars

\* ------------------------------------------------------------------------
\* _get_node_counts(root_node), one action per iteration of `while nodes:`
\* ------------------------------------------------------------------------
\* list(set): the elements in the iteration order of the set, which for node
\* objects follows their addresses
Orderings(set) ==
    {o \in [1..Cardinality(set) -> set] : \A i, j \in DOMAIN o : i # j => o[i] # o[j]}

\* n_sumnodes, n_productnodes, n_leaves after the nodes of counted
NodeCounts(counted, ty) ==
    << Cardinality({i \in DOMAIN counted : ty[counted[i]] = "ISumNode"}),
       Cardinality({i \in DOMAIN counted : ty[counted[i]] = "IProductNode"}),
       Cardinality({i \in DOMAIN counted : IsLeafType(ty[counted[i]])}) >>

CountCall ==
    /\ pc = "idle"
    /\ op' = "_get_node_counts"
    /\ bfs_queue' = <<root>>
    /\ bfs_visited' = <<>>
    /\ pc' = "count"
    /\ UNCHANGED <<leafVars, inferenceVars, graphVars, attrVars, bfs_seen, sortVars, evalVars, ret>>

\* node = nodes.pop(0); count it; nodes.extend(list(set(node.children) - set(nodes)))
CountStep ==
    /\ pc = "count" /\ bfs_queue # <<>>
    /\ LET node == Head(bfs_queue)
           rest == Tail(bfs_queue)
       IN /\ bfs_visited' = Append(bfs_visited, node)
          /\ \E extension \in Orderings(Kids(children, node) \ Range(rest)) :
                bfs_queue' = rest \o extension
    /\ UNCHANGED <<leafVars, inferenceVars, graphVars, attrVars, bfs_seen, op, pc, sortVars, evalVars, ret>>

CountExit ==
    /\ pc = "count" /\ bfs_queue = <<>>
    /\ pc' = "returned"
    /\ ret' = [kind |-> "value", value |-> NodeCounts(bfs_visited, ntype)]
    /\ UNCHANGED <<leafVars, inferenceVars, graphVars, attrVars, bfsVars, op, sortVars, evalVars>>

NextCounts == BuildScoped \/ CountCall \/ CountStep \/ CountExit

SpecCounts == InitStructure /\ [][NextCounts]_vars

\* ------------------------------------------------------------------------
\* Leaf inference: node_likelihood / node_log_likelihood of a Gaussian and the
\* RatSpn wrappers
\* ------------------------------------------------------------------------
MaxRows == 2
NumCols == 2

\* the values of the backing scipy distribution are closed forms of the
\* observation and of the parameters; np.exp of a log-density is the density
One == [f |-> "one", x |-> Num(0), loc |-> Num(0), scale |-> Num(0)]
Zero == [f |-> "zero", x |-> Num(0), loc |-> Num(0), scale |-> Num(0)]
Pdf(x, params) == [f |-> "pdf", x |-> x, loc |-> params.loc, scale |-> params.scale]
LogPdf(x, params) == [f |-> "logpdf", x |-> x, loc |-> params.loc, scale |-> params.scale]
Exp(v) ==
    IF v.f = "zero" THEN One
    ELSE IF v.f = "logpdf" THEN [v EXCEPT !.f = "pdf"]
    ELSE [v EXCEPT !.f = "exp_of_other"]

\* get_scipy_object_parameters(node: Gaussian) of a leaf with both parameters set
GaussianParameters(node) == [loc |-> node.mean, scale |-> node.stdev]

\* data[:, node.scope] for a scope of one column (0-based)
ScopeColumn(d, scope) == [i \in DOMAIN d |-> d[i][scope[1] + 1]]

\* (variant: the values are written to the first rows)
MaskedAssign_prefix(base, keep, vals) ==
    [i \in DOMAIN base |-> IF i <= Len(vals) THEN vals[i] ELSE base[i]]

RECURSIVE MaskedAssign(_, _, _)
\* probs[~marg_ids] = vals: the k-th row that is kept gets the k-th value
MaskedAssign(base, keep, vals) ==
    IF base = <<>> THEN <<>>
    ELSE IF Head(keep)
         THEN <<Head(vals)>> \o MaskedAssign(Tail(base), Tail(keep), Tail(vals))
         ELSE <<Head(base)>> \o MaskedAssign(Tail(base), Tail(keep), vals)

node_likelihood(node, d) ==
    LET col == ScopeColumn(d, node.scope)
        keep == [i \in DOMAIN col |-> ~IsNaN(col[i])]
        x == SelectSeq(col, LAMBDA v : ~IsNaN(v))
        vals == [i \in DOMAIN x |-> Pdf(x[i], GaussianParameters(node))]
    IN MaskedAssign([i \in DOMAIN d |-> One], keep, vals)

node_log_likelihood(node, d) ==
    LET col == ScopeColumn(d, node.scope)
        keep == [i \in DOMAIN col |-> ~IsNaN(col[i])]
        x == SelectSeq(col, LAMBDA v : ~IsNaN(v))
        temp == [i \in DOMAIN x |-> LogPdf(x[i], GaussianParameters(node))]
    IN MaskedAssign([i \in DOMAIN d |-> Zero], keep, temp)

\* log_likelihood(network_type, node, data) of a leaf node: the leaf's
\* node_log_likelihood, under the handlers of the network type
log_likelihood(network_type, node, d) ==
    [rows |-> node_log_likelihood(node, d), network_type |-> network_type, node |-> node]

\* log_likelihood(rat_spn, data)
log_likelihood_rat(r, d) == log_likelihood(r.network_type, r.output_nodes[1], d)

\* (variant: the log-likelihood is returned as the likelihood)
likelihood_rat_log(r, d) == log_likelihood(r.network_type, r.output_nodes[1], d)

\* likelihood(rat_spn, data) = np.exp(log_likelihood(network_type, output_nodes[0], data))
likelihood_rat(r, d) ==
    LET l == log_likelihood(r.network_type, r.output_nodes[1], d)
    IN [l EXCEPT !.rows = [i \in DOMAIN l.rows |-> Exp(l.rows[i])]]

NetworkTypes == {"SPN", "ConditionalSPN"}

DataValues == {NaN, Num(0), Num(4)}

Scopes == {<<c>> : c \in 0..(NumCols - 1)}

Gaussian(sc, mean, stdev) ==
    [class |-> "Gaussian", scope |-> sc, mean |-> mean, stdev |-> stdev]

\* target 0 is the RatSpn itself; target i > 0 is its i-th output node, on
\* which node_likelihood / node_log_likelihood are called directly
CallLikelihood ==
    /\ probs = NoOutcome
    /\ probs' = IF target = 0
                THEN Value(likelihood_rat(rat, data))
                ELSE Value([rows |-> node_likelihood(rat.output_nodes[target], data),
                            network_type |-> rat.network_type,
                            node |-> rat.output_nodes[target]])
    /\ UNCHANGED <<graphVars, attrVars, bfsVars, op, pc, sortVars, evalVars, ret, leafVars,
                   rat, data, target, log_probs>>

CallLogLikelihood ==
    /\ log_probs = NoOutcome
    /\ log_probs' = IF target = 0
                    THEN Value(log_likelihood_rat(rat, data))
                    ELSE Value([rows |-> node_log_likelihood(rat.output_nodes[target], data),
                                network_type |-> rat.network_type,
                                node |-> rat.output_nodes[target]])
    /\ UNCHANGED <<graphVars, attrVars, bfsVars, op, pc, sortVars, evalVars, ret, leafVars,
                   rat, data, target, probs>>

InitInference ==
    /\ NoGraph /\ eval_functions = {} /\ NoCall /\ NoLeaf
    /\ \E nt \in NetworkTypes, sc1 \in Scopes, sc2 \in Scopes :
          rat = [network_type |-> nt,
                 output_nodes |-> <<Gaussian(sc1, Num(0), Num(4)),
                                    Gaussian(sc2, Num(0), Num(8))>>]
    /\ data \in UNION {[1..m -> [1..NumCols -> DataValues]] : m \in 0..MaxRows}
    /\ target \in 0..2
    /\ probs = NoOutcome
    /\ log_probs = NoOutcome

NextInference == CallLikelihood \/ CallLogLikelihood

SpecInference == InitInference /\ [][NextInference]_vars

\* ------------------------------------------------------------------------
\* Parametric leaves: construction, set_params, get_scipy_object_parameters
\* ------------------------------------------------------------------------
\* depth of the interpreter's call stack at which RecursionError is raised
RecursionLimit == 6

LeafClasses == {"Gaussian", "Bernoulli", "Binomial", "Hypergeometric"}

\* the torch leaves: parameters live in torch Parameters, no scipy adapter
TorchClasses == {"TorchPoisson"}

\* the parameters in the order set_params takes them and
\* get_scipy_object_parameters tests them
ParamOrder(class) ==
    CASE class = "Gaussian" -> <<"mean", "stdev">>
      [] class = "Bernoulli" -> <<"p">>
      [] class = "Binomial" -> <<"n", "p">>
      [] class = "Hypergeometric" -> <<"N", "M", "n">>
      [] class = "TorchPoisson" -> <<"l">>

ParamNames == {"mean", "stdev", "p", "n", "N", "M", "l"}

\* the object after ParametricLeaf.__init__(scope), no parameter attribute yet
NewLeaf(class, scope) ==
    [class |-> class, scope |-> scope, attrs |-> [a \in ParamNames |-> Unset]]

WithParams(node, args) ==
    [node EXCEPT !.attrs = [a \in ParamNames |->
        IF \E i \in DOMAIN args : ParamOrder(node.class)[i] = a
        THEN args[CHOOSE i \in DOMAIN args : ParamOrder(node.class)[i] = a]
        ELSE @[a]]]

\* the keyword arguments for the scipy distribution (the Hypergeometric ones
\* with scipy's switched names)
ScipyParameters(node) ==
    CASE node.class = "Gaussian" -> [loc |-> node.attrs["mean"], scale |-> node.attrs["stdev"]]
      [] node.class = "Bernoulli" -> [p |-> node.attrs["p"]]
      [] node.class = "Binomial" -> [n |-> node.attrs["n"], p |-> node.attrs["p"]]
      [] node.class = "Hypergeometric" ->
            [M |-> node.attrs["N"], n |-> node.attrs["M"], N |-> node.attrs["n"]]

\* the parameters that are missing or None, by position in ParamOrder
NotSet(node) ==
    {i \in DOMAIN ParamOrder(node.class) :
        node.attrs[ParamOrder(node.class)[i]].k \in {"unset", "none"}}

RECURSIVE get_scipy_object_parameters(_, _)
RECURSIVE LeafStr(_, _)

\* ParametricLeaf.__str__: formats get_scipy_object_parameters(self)
LeafStr(node, depth) ==
    IF depth > RecursionLimit THEN Raise("RecursionError")
    ELSE LET parameters == get_scipy_object_parameters(node, depth + 1)
         IN IF parameters.kind = "exception" THEN parameters ELSE Value("str")

\* get_scipy_object_parameters(node), entered at stack depth `depth`: the
\* first parameter that is None raises InvalidParametersError with a message
\* that formats the node, that is, calls node.__str__()
get_scipy_object_parameters(node, depth) ==
    IF depth > RecursionLimit THEN Raise("RecursionError")
    ELSE IF NotSet(node) = {} THEN Value(ScipyParameters(node))
    ELSE LET i == CHOOSE j \in NotSet(node) : \A m \in NotSet(node) : j <= m
         IN IF node.attrs[ParamOrder(node.class)[i]].k = "unset"
            THEN Raise("AttributeError")
            ELSE LET message == LeafStr(node, depth + 1)
                 IN IF message.kind = "exception" THEN message
                    ELSE Raise("InvalidParametersError")

\* norm.pdf(mean, loc=mean, scale=stdev) >= 1.0, i.e. stdev <= 1/sqrt(2 pi):
\* of the quarters only 0.25
DegeneratePdf(stdev) == stdev.q <= 1

\* set_params of the four classes: the outcome and the node afterwards
set_params(node, args) ==
    LET ok == [ret |-> Value("None"), node |-> WithParams(node, args)]
        fail(e) == [ret |-> e, node |-> node]
    IN CASE node.class = "Gaussian" ->
              IF ~(IsFinite(args[1]) /\ IsFinite(args[2])) THEN fail(Raise("ValueError"))
              ELSE IF Le(args[2], Num(0)) THEN fail(Raise("ValueError"))
              ELSE IF DegeneratePdf(args[2]) /\ LeafStr(node, 2).kind = "exception"
                   THEN fail(LeafStr(node, 2))
                   ELSE ok
         [] node.class = "Bernoulli" ->
              IF Lt(args[1], Num(0)) \/ Gt(args[1], Num(4)) \/ ~IsFinite(args[1])
              THEN fail(Raise("ValueError"))
              ELSE ok
         [] node.class = "Binomial" ->
              IF Lt(args[2], Num(0)) \/ Gt(args[2], Num(4)) \/ ~IsFinite(args[2])
              THEN fail(Raise("ValueError"))
              ELSE IF Lt(args[1], Num(0)) \/ ~IsFinite(args[1])
                   THEN fail(Raise("ValueError"))
                   ELSE ok
         [] node.class = "Hypergeometric" ->
              IF Lt(args[1], Num(0)) \/ ~IsFinite(args[1])
              THEN fail(Raise("ValueError"))
              ELSE IF Lt(args[2], Num(0)) \/ Gt(args[2], args[1]) \/ ~IsFinite(args[2])
                   THEN fail(Raise("ValueError"))
                   ELSE IF Lt(args[3], Num(0)) \/ Gt(args[3], args[1]) \/ ~IsFinite(args[3])
                        THEN fail(Raise("ValueError"))
                        ELSE ok
         [] node.class = "TorchPoisson" ->
              IF ~IsFinite(args[1]) THEN fail(Raise("ValueError")) ELSE ok

\* the values handed to constructors and set_params: nan, inf, -1, 0, 0.25, 1
FloatArgs == {NaN, PosInf, Num(-4), Num(0), Num(1), Num(4)}

ArgTuples(class) == [DOMAIN ParamOrder(class) -> FloatArgs]

ScopeArgs == {<<>>, <<0>>, <<0, 1>>}

\* (variant: only the empty scope is refused)
ScopeOk_nonempty(scope) == Len(scope) >= 1

\* if len(scope) != 1: raise ValueError(...)
ScopeOk(scope) == Len(scope) = 1

\* Class(scope, *args) with explicit parameters
Construct(class, scope, args) ==
    /\ leaf.class = "none"
    /\ IF ~ScopeOk(scope)
       THEN /\ call' = [op |-> "__init__", class |-> class, scope |-> scope,
                        args |-> args, ret |-> Raise("ValueError")]
            /\ UNCHANGED leaf
       ELSE LET r == set_params(NewLeaf(class, scope), args)
            IN /\ call' = [op |-> "__init__", class |-> class, scope |-> scope,
                           args |-> args, ret |-> r.ret]
               /\ leaf' = IF r.ret.kind = "value" THEN r.node ELSE leaf
    /\ UNCHANGED <<graphVars, attrVars, bfsVars, op, pc, sortVars, evalVars, ret, inferenceVars>>

\* (variant: the first parameter is assigned before the others are checked)
SetParams_partial(args) ==
    /\ leaf.class # "none"
    /\ LET r == set_params(leaf, args)
       IN /\ call' = [op |-> "set_params", class |-> leaf.class, scope |-> leaf.scope,
                      args |-> args, ret |-> r.ret]
          /\ leaf' = IF r.ret.kind = "exception" /\ IsFinite(args[1])
                     THEN WithParams(leaf, <<args[1]>>)
                     ELSE r.node
    /\ UNCHANGED <<graphVars, attrVars, bfsVars, op, pc, sortVars, evalVars, ret, inferenceVars>>

\* leaf.set_params(*args)
SetParams(args) ==
    /\ leaf.class # "none"
    /\ LET r == set_params(leaf, args)
       IN /\ call' = [op |-> "set_params", class |-> leaf.class, scope |-> leaf.scope,
                      args |-> args, ret |-> r.ret]
          /\ leaf' = r.node
    /\ UNCHANGED <<graphVars, attrVars, bfsVars, op, pc, sortVars, evalVars, ret, inferenceVars>>

\* leaf.<name> = None, as the tests do after construction
SetAttrNone(name) ==
    /\ leaf.class \in LeafClasses
    /\ \E i \in DOMAIN ParamOrder(leaf.class) : ParamOrder(leaf.class)[i] = name
    /\ leaf.attrs[name] # None
    /\ leaf' = [leaf EXCEPT !.attrs[name] = None]
    /\ call' = [op |-> "setattr", class |-> leaf.class, scope |-> leaf.scope,
                args |-> <<>>, ret |-> Value("None")]
    /\ UNCHANGED <<graphVars, attrVars, bfsVars, op, pc, sortVars, evalVars, ret, inferenceVars>>

\* get_scipy_object_parameters(leaf), as node_likelihood calls it
GetScipyObjectParameters ==
    /\ leaf.class \in LeafClasses
    /\ call.op # "get_scipy_object_parameters"
    /\ call' = [op |-> "get_scipy_object_parameters", class |-> leaf.class,
                scope |-> leaf.scope, args |-> <<>>,
                ret |-> get_scipy_object_parameters(leaf, 1)]
    /\ UNCHANGED <<graphVars, attrVars, bfsVars, op, pc, sortVars, evalVars, ret, inferenceVars, leaf>>

\* ------------------------------------------------------------------------
\* TorchPoisson.forward: the log-probabilities of the rows of a data tensor
\* ------------------------------------------------------------------------
\* a row of torch.empty: not written yet
Uninitialized == [f |-> "uninitialized", x |-> Num(0), loc |-> Num(0), scale |-> Num(0)]

\* -float("Inf"), the log of probability 0
LogOfZero == [f |-> "neg_inf", x |-> Num(0), loc |-> Num(0), scale |-> Num(0)]

\* the Poisson log-mass of an integer k >= 0 at rate l > 0: finite
LogPmf(k, l) == [f |-> "logpmf", x |-> k, loc |-> l, scale |-> Num(0)]

\* dist.log_prob(values) of D.Poisson: torch validates the sample against the
\* support (non-negative integers) and raises ValueError for the whole batch
PoissonLogProb(values, l) ==
    IF \E i \in DOMAIN values : ~(IsInteger(values[i]) /\ Ge(values[i], Num(0)))
    THEN Raise("ValueError")
    ELSE Value([i \in DOMAIN values |-> LogPmf(values[i], l)])

\* log_prob[mask] = 0.0 / -float("Inf")
MaskedFill(base, mask, v) == [i \in DOMAIN base |-> IF mask[i] THEN v ELSE base[i]]

\* support_mask = (scope_data >= 0).sum(dim=1).bool()
SupportMask(col) == [i \in DOMAIN col |-> Ge(col[i], Num(0))]

forward(node, d) ==
    LET scope_data == ScopeColumn(d, node.scope)
        empty == [i \in DOMAIN d |-> Uninitialized]
        marg == [i \in DOMAIN scope_data |-> IsNaN(scope_data[i])]
        prob_mask == [i \in DOMAIN scope_data |-> ~IsNaN(scope_data[i])]
        support_mask == SupportMask(scope_data)
        outside == [i \in DOMAIN scope_data |-> prob_mask[i] /\ ~support_mask[i]]
        inside == [i \in DOMAIN scope_data |-> prob_mask[i] /\ support_mask[i]]
        log_prob1 == MaskedFill(MaskedFill(empty, marg, Zero), outside, LogOfZero)
        picked == SelectSeq(scope_data, LAMBDA v : ~IsNaN(v) /\ Ge(v, Num(0)))
        lp == PoissonLogProb(picked, node.attrs["l"])
    IN IF lp.kind = "exception" THEN lp
       ELSE Value(MaskedAssign(log_prob1, inside, lp.value))

\* the observations of the scope column: nan, -inf, inf, -1, 0, 0.25, 1
Observations == {NaN, NegInf, PosInf, Num(-4), Num(0), Num(1), Num(4)}

\* leaf(data) on a TorchPoisson with a positive rate and a one-column tensor
Forward(d) ==
    /\ leaf.class = "TorchPoisson"
    /\ Gt(leaf.attrs["l"], Num(0))
    /\ call' = [op |-> "forward", class |-> leaf.class, scope |-> leaf.scope,
                args |-> d, ret |-> forward(leaf, d)]
    /\ UNCHANGED <<graphVars, attrVars, bfsVars, op, pc, sortVars, evalVars, ret,
                   inferenceVars, leaf>>

InitLeaf == NoGraph /\ eval_functions = {} /\ NoCall /\ NoInference /\ NoLeaf

NextLeaf ==
    \/ \E class \in LeafClasses \cup TorchClasses, scope \in ScopeArgs :
          \E args \in ArgTuples(class) : Construct(class, scope, args)
    \/ \E class \in LeafClasses \cup TorchClasses : \E args \in ArgTuples(class) :
          leaf.class = class /\ SetParams(args)
    \/ \E d \in UNION {[1..m -> [1..1 -> Observations]] : m \in 0..MaxRows} : Forward(d)
    \/ \E name \in ParamNames : SetAttrNone(name)
    \/ GetScipyObjectParameters

SpecLeaf == InitLeaf /\ [][NextLeaf]_vars

\* ------------------------------------------------------------------------
\* Node objects as values: class, scope, child objects and, for a sum node,
\* weights (in quarters).  Constructors and equals.
\* ------------------------------------------------------------------------
MaxChildren == 2

Min(a, b) == IF a < b THEN a ELSE b

RECURSIVE SumSeq(_)
SumSeq(w) == IF w = <<>> THEN 0 ELSE Head(w) + SumSeq(Tail(w))

\* ILeafNode.__init__(scope) of a leaf class: children=[]
LeafObject(t, sc) == [type |-> t, scope |-> sc, children |-> <<>>, weights |-> <<>>]

\* IProductNode.__init__(children, scope)
IProductNode(cs, sc) == [type |-> "IProductNode", scope |-> sc, children |-> cs, weights |-> <<>>]

\* the weights argument: an array, or None when it is omitted
Omitted == [is_none |-> TRUE]
Array(w) == [is_none |-> FALSE, array |-> w]

\* np.random.rand(k) + 1e-08, divided by its sum: any positive vector of
\* length k that sums to 1 (an empty vector, summing to 0, for k = 0)
RandomWeights(k) == {g \in [1..k -> 1..4] : k = 0 \/ SumSeq(g) = 4}

\* ISumNode.__init__(children, scope, weights): weights that are passed are
\* stored as they are, omitted ones are generated, one per child (len(child)
\* is 1 for every node).  The set of objects the call can produce.
ISumNode(cs, sc, weights) ==
    LET n == SumSeq([i \in DOMAIN cs |-> 1])
    IN {[type |-> "ISumNode", scope |-> sc, children |-> cs, weights |-> w] :
           w \in IF weights = Omitted THEN RandomWeights(n) ELSE {weights.array}}

RECURSIVE equals(_, _)
RECURSIVE AllEquals(_, _, _)

\* all(map(lambda x, y: x.equals(y), self.children, other.children)): map
\* stops at the end of the shorter list, all() at the first False
AllEquals(xs, ys, i) ==
    IF i > Min(Len(xs), Len(ys)) THEN Value(TRUE)
    ELSE LET r == equals(xs[i], ys[i])
         IN IF r.kind = "exception" THEN r
            ELSE IF ~r.value THEN Value(FALSE)
            ELSE AllEquals(xs, ys, i + 1)

\* INode.equals
INode_equals(self, other) ==
    IF self.type # other.type THEN Value(FALSE)
    ELSE IF self.scope # other.scope THEN Value(FALSE)
    ELSE AllEquals(self.children, other.children, 1)

\* np.allclose(a, b, rtol=1.0e-5): the shapes are broadcast (equal lengths, or
\* one of them 1), else ValueError; weights differ by quarters or not at all
allclose(a, b) ==
    IF Len(a) # Len(b) /\ Len(a) # 1 /\ Len(b) # 1 THEN Raise("ValueError")
    ELSE LET n == IF Len(a) = 1 THEN Len(b) ELSE IF Len(b) = 1 THEN Len(a) ELSE Len(a)
             at(v, i) == IF Len(v) = 1 THEN v[1] ELSE v[i]
         IN Value(\A i \in 1..n : at(a, i) = at(b, i))

\* ISumNode.equals
ISumNode_equals(self, other) ==
    IF other.type = "ISumNode"
    THEN LET r == INode_equals(self, other)
         IN IF r.kind = "exception" \/ ~r.value THEN r
            ELSE LET c == allclose(self.weights, other.weights)
                 IN IF c.kind = "exception" \/ ~c.value THEN c
                    ELSE Value(Len(self.weights) = Len(other.weights))
    ELSE Value(FALSE)

\* self.equals(other), dispatched on the class of self
equals(self, other) ==
    IF self.type = "ISumNode" THEN ISumNode_equals(self, other)
    ELSE INode_equals(self, other)

LeafObjects ==
    {LeafObject("Gaussian", <<0>>), LeafObject("Gaussian", <<1>>), LeafObject("Bernoulli", <<0>>)}

ChildLists == UNION {[1..k -> LeafObjects] : k \in 0..MaxChildren}

\* weight vectors handed to ISumNode: quarters from -0.25 to 1
WeightArgs == UNION {[1..k -> {-1, 0, 1, 2, 3, 4}] : k \in 0..MaxChildren}

\* the sum nodes compared by equals carry these weights
SumWeights == {<<4>>, <<2, 2>>, <<1, 3>>, <<1, 1, 2>>}

NodeObjects ==
    LeafObjects
    \cup {IProductNode(cs, sc) : cs \in ChildLists, sc \in ScopeLists}
    \cup UNION {ISumNode(cs, sc, Array(w)) :
                    cs \in ChildLists, sc \in ScopeLists, w \in SumWeights}

\* ISumNode(children, scope) and ISumNode(children, scope, weights)
ConstructSum(cs, sc, weights) ==
    /\ call.op = "none"
    /\ \E node \in ISumNode(cs, sc, weights) :
          call' = [op |-> "ISumNode", children |-> cs, scope |-> sc,
                   weights |-> weights, ret |-> Value(node)]
    /\ UNCHANGED <<graphVars, attrVars, bfsVars, op, pc, sortVars, evalVars, ret,
                   inferenceVars, leaf>>

\* a.equals(b)
Equals(a, b) ==
    /\ call.op = "none"
    /\ call' = [op |-> "equals", self |-> a, other |-> b, ret |-> equals(a, b)]
    /\ UNCHANGED <<graphVars, attrVars, bfsVars, op, pc, sortVars, evalVars, ret,
                   inferenceVars, leaf>>

\* ------------------------------------------------------------------------
\* The fallbacks registered for INode in parametric.py: what a call gets
\* when the class of the node has no implementation of its own
\* ------------------------------------------------------------------------
\* classes without adapter: ILeafNode itself, a direct subclass of it,
\* ParametricLeaf (instantiable, no adapter), the INode subclass of
\* test_not_implemented, the internal nodes
NoAdapterClasses ==
    {"ILeafNode", "LeafSubclass", "ParametricLeaf", "ITestNode", "IProductNode", "ISumNode"}

NotImplemented(msg) == [kind |-> "exception", exc |-> "NotImplementedError", msg |-> msg]

RECURSIVE default_get_scipy_object_parameters(_, _)

\* str(node): INode.__str__ formats class and scope, ParametricLeaf.__str__
\* calls get_scipy_object_parameters(self) first; a Gaussian has its adapter
NodeStr(class, depth) ==
    IF depth > RecursionLimit THEN Raise("RecursionError")
    ELSE IF class = "ParametricLeaf"
         THEN LET parameters == default_get_scipy_object_parameters(class, depth + 1)
              IN IF parameters.kind = "exception" THEN parameters ELSE Value("str")
         ELSE Value("str")

\* type(node) is ILeafNode
ExactlyILeafNode(class) == class = "ILeafNode"

\* get_scipy_object_parameters(node: INode)
default_get_scipy_object_parameters(class, depth) ==
    IF depth > RecursionLimit THEN Raise("RecursionError")
    ELSE LET message == NodeStr(class, depth + 1)
         IN IF message.kind = "exception" THEN message
            ELSE IF ExactlyILeafNode(class) THEN NotImplemented("does not provide")
            ELSE NotImplemented("cannot provide")

\* get_scipy_object(node: INode)
default_get_scipy_object(class, depth) ==
    IF depth > RecursionLimit THEN Raise("RecursionError")
    ELSE LET message == NodeStr(class, depth + 1)
         IN IF message.kind = "exception" THEN message
            ELSE IF ExactlyILeafNode(class) THEN NotImplemented("does not provide")
            ELSE NotImplemented("cannot provide")

Capabilities ==
    {"get_natural_parameters", "get_base_measure", "get_sufficient_statistics",
     "get_log_partition_natural", "get_log_partition_param", "update_parameters_em"}

\* the number of argument types the INode fallback is registered for
RegisteredArity(name) ==
    IF name \in {"get_base_measure", "get_sufficient_statistics"} THEN 2 ELSE 1

\* the number of parameters of the fallback function
FunctionParams(name) ==
    CASE name \in {"get_base_measure", "get_sufficient_statistics"} -> 2
      [] name = "update_parameters_em" -> 3
      [] OTHER -> 1

\* name(node, ...) with `positional` arguments passed by position and the
\* others by keyword: the dispatcher looks the positional types up and raises
\* NotImplementedError when no signature fits; the fallback of
\* get_natural_parameters raises, the others are `pass`
capability(name, class, positional) ==
    IF positional # RegisteredArity(name) THEN NotImplemented("Could not find signature")
    ELSE IF name = "get_natural_parameters"
         THEN LET message == NodeStr(class, 2)
              IN IF message.kind = "exception" THEN message
                 ELSE IF ExactlyILeafNode(class) THEN NotImplemented("does not provide")
                 ELSE NotImplemented("cannot provide")
         ELSE Value("None")

GetScipyObjectDefault(class) ==
    /\ call.op = "none"
    /\ call' = [op |-> "get_scipy_object", class |-> class,
                ret |-> default_get_scipy_object(class, 1)]
    /\ UNCHANGED <<graphVars, attrVars, bfsVars, op, pc, sortVars, evalVars, ret,
                   inferenceVars, leaf>>

GetScipyObjectParametersDefault(class) ==
    /\ call.op = "none"
    /\ call' = [op |-> "get_scipy_object_parameters", class |-> class,
                ret |-> default_get_scipy_object_parameters(class, 1)]
    /\ UNCHANGED <<graphVars, attrVars, bfsVars, op, pc, sortVars, evalVars, ret,
                   inferenceVars, leaf>>

CallCapability(name, class, positional) ==
    /\ call.op = "none"
    /\ call' = [op |-> "capability", name |-> name, class |-> class,
                positional |-> positional, ret |-> capability(name, class, positional)]
    /\ UNCHANGED <<graphVars, attrVars, bfsVars, op, pc, sortVars, evalVars, ret,
                   inferenceVars, leaf>>

\* one call per behaviour: the calls are independent of one another
InitNodeApi == NoGraph /\ eval_functions = {} /\ NoCall /\ NoInference /\ NoLeaf

NextNodeApi ==
    \/ call.op = "none" /\ \E cs \in ChildLists, sc \in ScopeLists :
          \E w \in {Array(a) : a \in WeightArgs} \cup {Omitted} : ConstructSum(cs, sc, w)
    \/ call.op = "none" /\ \E a \in NodeObjects, b \in NodeObjects : Equals(a, b)
    \/ call.op = "none" /\ \E class \in NoAdapterClasses : GetScipyObjectDefault(class)
    \/ call.op = "none" /\ \E class \in NoAdapterClasses :
          GetScipyObjectParametersDefault(class)
    \/ call.op = "none" /\ \E name \in Capabilities, class \in NoAdapterClasses \cup {"Gaussian"} :
          \E positional \in 1..FunctionParams(name) : CallCapability(name, class, positional)

SpecNodeApi == InitNodeApi /\ [][NextNodeApi]_vars

\* ------------------------------------------------------------------------
\* Properties of the sorts
\* ------------------------------------------------------------------------
IsChildBefore(seq) ==
    \A i, j \in DOMAIN seq : seq[j] \in Kids(children, seq[i]) => j < i

\* C1: on an acyclic graph get_topological_order returns a list holding every
\* node reachable from the root exactly once, each node after all of its
\* children, whatever the sharing and the repetitions in the child lists.
C1_TopologicalOrder ==
    (op = "get_topological_order" /\ pc \in {"returned", "raised"}
        /\ Acyclic(children, root))
    => /\ ret.kind = "value"
       /\ Len(ret.value) = Cardinality(ReachSet(children, root))
       /\ \A n \in ReachSet(children, root) : Count(ret.value, n) = 1
       /\ IsChildBefore(ret.value)

\* a returned order of a graph with a child shared by two parents and a
\* child repeated in one child list
C1_Witness ==
    /\ op = "get_topological_order" /\ pc = "returned"
    /\ \E n \in ReachSet(children, root) : Cardinality(ParentSet(children, root, n)) >= 2
    /\ \E n \in ReachSet(children, root) : Len(children[n]) > Cardinality(Kids(children, n))

\* C6: on a graph with a cycle reachable from the root both sorts terminate
\* with the "Graph is not DAG" AssertionError and never return an ordering.
C6_CyclicGraphFails ==
    (pc \in {"kahn", "layers"} /\ ~Acyclic(children, root))
    ~> (pc = "raised" /\ ret.kind = "exception" /\ ret.exc = "AssertionError")

\* the layered sort has failed on a graph with a cycle through the root that
\* is no self-loop
C6_Witness ==
    /\ op = "get_topological_order_layers" /\ pc = "raised"
    /\ root \in Descendants(children, root)
    /\ root \notin Kids(children, root)


\* ------------------------------------------------------------------------
\* Properties of eval_spn_bottom_up
\* ------------------------------------------------------------------------
CallsOf(n) == {k \in DOMAIN calls : calls[k].node = n}

\* C2: in one call of eval_spn_bottom_up no handler runs twice for a node, only
\* reachable nodes are handled, and when the call returns every reachable node
\* was handled exactly once, however many parents or child-list entries name it.
C2_HandlerOncePerNode ==
    op = "eval_spn_bottom_up"
    => /\ \A n \in Nodes : Cardinality(CallsOf(n)) <= 1
       /\ \A k \in DOMAIN calls : calls[k].node \in ReachSet(children, root)
       /\ pc = "returned"
          => \A n \in ReachSet(children, root) : Cardinality(CallsOf(n)) = 1

\* a returned evaluation of a graph with a child shared by two parents and a
\* child repeated in one child list
C2_Witness ==
    /\ op = "eval_spn_bottom_up" /\ pc = "returned"
    /\ \E n \in ReachSet(children, root) : Cardinality(ParentSet(children, root, n)) >= 2
    /\ \E n \in ReachSet(children, root) : Len(children[n]) > Cardinality(Kids(children, n))

\* C3: when the handler of a non-leaf node runs, the handler of each of its
\* children has run before, and the children results it gets are the stored
\* results of n.children, in that order and of that length.
C3_ChildrenResults ==
    op = "eval_spn_bottom_up"
    => \A k \in DOMAIN calls :
          calls[k].with_children
          => LET n == calls[k].node
             IN /\ \A c \in Kids(children, n) : \E j \in 1..(k - 1) : calls[j].node = c
                /\ Len(calls[k].args) = Len(children[n])
                /\ \A i \in DOMAIN children[n] :
                      /\ children[n][i] \in DOMAIN all_results
                      /\ calls[k].args[i] = all_results[children[n][i]]

\* a returned evaluation in which the argument buffer was reused: a node with
\* one child was handled before a node with two
C3_Witness ==
    /\ op = "eval_spn_bottom_up" /\ pc = "returned"
    /\ \E j, k \in DOMAIN calls :
          /\ j < k
          /\ Len(calls[j].args) = 1
          /\ Len(calls[k].args) = 2
          /\ calls[k].args[1] # calls[k].args[2]
    /\ Len(tmp_children_list) > Len(children[root])


\* ------------------------------------------------------------------------
\* Properties of eval_spn_top_down
\* ------------------------------------------------------------------------
\* C4: in eval_spn_top_down no handler runs twice for a node, the handler of a
\* node runs only after the handlers of all of its parents, and when the call
\* returns every reachable node was handled exactly once.
C4_ParentsFirst ==
    op = "eval_spn_top_down"
    => /\ \A n \in Nodes : Cardinality(CallsOf(n)) <= 1
       /\ \A k \in DOMAIN calls :
             \A p \in ParentSet(children, root, calls[k].node) :
                \E j \in 1..(k - 1) : calls[j].node = p
       /\ pc = "returned"
          => \A n \in ReachSet(children, root) : Cardinality(CallsOf(n)) = 1

\* a returned top-down pass over a graph in which breadth-first discovery
\* meets a node before one of its parents
C4_Witness ==
    /\ op = "eval_spn_top_down" /\ pc = "returned"
    /\ \E n \in ReachSet(children, root) :
          /\ Cardinality(ParentSet(children, root, n)) >= 2
          /\ \E p \in ParentSet(children, root, n) :
                LET b == bfs(children, ntype, root)
                IN \E i, j \in DOMAIN b : i < j /\ b[i] = n /\ b[j] = p

\* the parents whose handler has returned an entry for n
Senders(n) ==
    {p \in DOMAIN returned :
        ~IsLeafType(ntype[p]) /\ ~returned[p].is_none /\ n \in returned[p].keys}

\* every handler run so far returned None or a mapping keyed by children only
KeyedByChildren ==
    \A p \in DOMAIN returned :
       IsLeafType(ntype[p]) \/ returned[p].keys \subseteq Kids(children, p)

\* C5: provided the handlers return mappings keyed by children only, the message list a non-root node's handler gets holds exactly one
\* message of each parent whose handler returned an entry for the node, the
\* root's handler gets [parent_result], and the list of a node is not
\* appended to once the node's handler has run.
C5_MessageLists ==
    (op = "eval_spn_top_down" /\ KeyedByChildren)
    => \A k \in DOMAIN calls :
          LET n == calls[k].node
              args == calls[k].args
          IN /\ n = root => args = <<parent_result>>
             /\ n # root =>
                   /\ Range(args) = {Message(p, n) : p \in Senders(n)}
                   /\ Len(args) = Cardinality(Senders(n))
             /\ all_results[n] = args

\* a returned top-down pass in which a node got messages of two parents
C5_Witness ==
    /\ op = "eval_spn_top_down" /\ pc = "returned"
    /\ \E k \in DOMAIN calls : Len(calls[k].args) >= 2


\* ------------------------------------------------------------------------
\* Properties of leaf inference
\* ------------------------------------------------------------------------
TargetNode == rat.output_nodes[IF target = 0 THEN 1 ELSE target]

Observed(i) == data[i][TargetNode.scope[1] + 1]

\* C7: node_likelihood gives 1 and node_log_likelihood gives 0 in every row
\* whose scope column is NaN and the closed-form value in every other row;
\* the calls return (no error) whatever rows are NaN.
C7_Marginalization ==
    target > 0
    => /\ probs.kind \in {"none", "value"}
       /\ log_probs.kind \in {"none", "value"}
       /\ probs.kind = "value"
          => /\ Len(probs.value.rows) = Len(data)
             /\ \A i \in DOMAIN data :
                   probs.value.rows[i] =
                      IF IsNaN(Observed(i)) THEN One
                      ELSE Pdf(Observed(i), GaussianParameters(TargetNode))
       /\ log_probs.kind = "value"
          => /\ Len(log_probs.value.rows) = Len(data)
             /\ \A i \in DOMAIN data :
                   log_probs.value.rows[i] =
                      IF IsNaN(Observed(i)) THEN Zero
                      ELSE LogPdf(Observed(i), GaussianParameters(TargetNode))

\* both functions were evaluated on a matrix whose scope column has a NaN row
\* followed by an observed row, the other column being observed in the NaN row
C7_Witness ==
    /\ target > 0
    /\ probs.kind = "value" /\ log_probs.kind = "value"
    /\ Len(data) = 2
    /\ IsNaN(Observed(1)) /\ ~IsNaN(Observed(2))
    /\ \E c \in 1..NumCols : ~IsNaN(data[1][c])

C9_NoneRaisesInvalidParameters ==
    (call.op = "get_scipy_object_parameters"
        /\ \E i \in DOMAIN ParamOrder(leaf.class) :
              leaf.attrs[ParamOrder(leaf.class)[i]] = None)
    => (call.ret.kind = "exception" /\ call.ret.exc = "InvalidParametersError")

ValidHypergeometric(args) ==
    /\ IsInteger(args[1]) /\ Ge(args[1], Num(0))
    /\ IsInteger(args[2]) /\ Ge(args[2], Num(0)) /\ Le(args[2], args[1])
    /\ IsInteger(args[3]) /\ Ge(args[3], Num(0)) /\ Le(args[3], args[1])

\* C10: Hypergeometric(scope, N, M, n) and set_params(N, M, n) succeed exactly
\* when N is a finite non-negative integer and M and n are integers in 0..N.
C10_HypergeometricValidation ==
    (call.op \in {"__init__", "set_params"} /\ call.class = "Hypergeometric"
        /\ Len(call.scope) = 1)
    => (call.ret.kind = "value" <=> ValidHypergeometric(call.args))

\* C11: the log-likelihood of a discrete-support leaf fails with an error when
\* an observed (non-NaN) value is infinite, non-integer or outside the support,
\* and accepts values of the support, its boundary included, with a finite
\* log-probability.
C11_DiscreteSupport ==
    call.op = "forward"
    => LET col == ScopeColumn(call.args, call.scope)
           bad(v) == ~IsNaN(v) /\ ~(IsInteger(v) /\ Ge(v, Num(0)))
       IN IF \E i \in DOMAIN col : bad(col[i])
          THEN call.ret.kind = "exception"
          ELSE /\ call.ret.kind = "value"
               /\ \A i \in DOMAIN col :
                     ~IsNaN(col[i]) => call.ret.value[i] = LogPmf(col[i], leaf.attrs["l"])

\* C14: a leaf constructor raises when the scope has not exactly one element,
\* so every leaf that exists, after any constructions and set_params calls,
\* has a scope of size 1.
C14_UnivariateScope ==
    /\ (call.op = "__init__" /\ Len(call.scope) # 1) => call.ret.kind = "exception"
    /\ leaf.class # "none" => Len(leaf.scope) = 1

\* a torch leaf was constructed with a scope of one variable and then given
\* new parameters
C14_Witness ==
    /\ leaf.class = "TorchPoisson"
    /\ call.op = "set_params" /\ call.ret.kind = "value"

\* ------------------------------------------------------------------------
\* Properties of the node structure
\* ------------------------------------------------------------------------
ScopeSet(n) == Range(node_scope[n])

\* the scope rules of a node that has children: the children of a product
\* node have pairwise disjoint scopes whose union is the node's scope, the
\* children of a sum node have the node's scope
ScopeRule(n) ==
    LET cs == children[n]
    IN (~IsLeafType(ntype[n]) /\ cs # <<>>)
       => IF ntype[n] = "ISumNode"
          THEN \A i \in DOMAIN cs : ScopeSet(cs[i]) = ScopeSet(n)
          ELSE /\ \A i, j \in DOMAIN cs : i # j => ScopeSet(cs[i]) \cap ScopeSet(cs[j]) = {}
               /\ UNION {ScopeSet(cs[i]) : i \in DOMAIN cs} = ScopeSet(n)

\* C12: a graph with a product node whose children's scopes overlap or do not
\* add up to its scope, or with a sum node whose children's scopes differ from
\* its scope, is refused at the latest by the first traversal or evaluation:
\* no traversal or evaluation of such a graph returns.
C12_ScopeViolationFails ==
    pc = "returned" => \A n \in ReachSet(children, root) : ScopeRule(n)

WeightsOf(node) == node.weights

\* C13: a constructed ISumNode, with weights passed or generated, has one
\* weight per child, all non-negative and summing to 1.
C13_SumWeightsNormalized ==
    call.op = "ISumNode"
    => LET w == WeightsOf(call.ret.value)
       IN /\ Len(w) = Len(call.children)
          /\ \A i \in DOMAIN w : w[i] >= 0
          /\ SumSeq(w) = 4

RECURSIVE StructurallyEqual(_, _)
\* same class, equal scope lists, the same number of children and each pair
\* of children structurally equal; for sum nodes weights of one shape that agree
StructurallyEqual(a, b) ==
    /\ a.type = b.type
    /\ a.scope = b.scope
    /\ Len(a.children) = Len(b.children)
    /\ \A i \in DOMAIN a.children : StructurallyEqual(a.children[i], b.children[i])
    /\ a.type = "ISumNode" => a.weights = b.weights

\* C15: a.equals(b) is true exactly when a and b are structurally equal; nodes
\* with different numbers of children are never equal.
C15_StructuralEquality ==
    call.op = "equals"
    => /\ call.ret.kind = "value"
       /\ call.ret.value = StructurallyEqual(call.self, call.other)

IsInstanceOfILeafNode(class) == class \in {"ILeafNode", "LeafSubclass", "ParametricLeaf"}

\* C16: get_scipy_object and get_scipy_object_parameters on a node without
\* adapter raise NotImplementedError, with the "does not provide" message for
\* every instance of ILeafNode (subclasses included) and the "cannot provide"
\* message for every other node.
C16_FallbackMessages ==
    call.op \in {"get_scipy_object", "get_scipy_object_parameters"}
        /\ call.class \in NoAdapterClasses
    => /\ call.ret.kind = "exception"
       /\ call.ret.exc = "NotImplementedError"
       /\ call.ret.msg = IF IsInstanceOfILeafNode(call.class)
                         THEN "does not provide" ELSE "cannot provide"

\* C17: an optional exponential-family capability called on a node whose
\* class does not implement it raises NotImplementedError and never returns.
C17_CapabilityNotImplemented ==
    call.op = "capability"
    => (call.ret.kind = "exception" /\ call.ret.exc = "NotImplementedError")

\* ------------------------------------------------------------------------
\* Properties of the layered sort, the traversal and the labelling
\* ------------------------------------------------------------------------
\* the layers of the returned value that hold n
LayersOf(layers, n) == {i \in DOMAIN layers : n \in Range(layers[i])}

\* C18: on an acyclic graph get_topological_order_layers returns layers in
\* which every reachable node occurs exactly once, the first layer is the set
\* of nodes without children, every node is in a strictly later layer than
\* each of its children, and the last layer is the root alone.
C18_LayersPartition ==
    (op = "get_topological_order_layers" /\ pc \in {"returned", "raised"}
        /\ Acyclic(children, root))
    => /\ ret.kind = "value"
       /\ \A n \in ReachSet(children, root) :
             Count(Flatten(ret.value), n) = 1
       /\ Range(Flatten(ret.value)) = ReachSet(children, root)
       /\ Range(ret.value[1]) = {n \in ReachSet(children, root) : children[n] = <<>>}
       /\ \A n \in ReachSet(children, root) : \A c \in Kids(children, n) :
             \A i \in LayersOf(ret.value, n), j \in LayersOf(ret.value, c) : j < i
       /\ Last(ret.value) = <<root>>

\* returned layers of a graph of three levels in which one child is shared by
\* two parents and one child is repeated in a child list
C18_Witness ==
    /\ op = "get_topological_order_layers" /\ pc = "returned"
    /\ Len(ret.value) >= 3
    /\ \E n \in ReachSet(children, root) : Cardinality(ParentSet(children, root, n)) >= 2
    /\ \E n \in ReachSet(children, root) : Len(children[n]) > Cardinality(Kids(children, n))

\* C19: a started bfs returns, on cyclic graphs too, having called func
\* exactly once on every node reachable from the root and on no other node:
\* a node with several parents once, each of two distinct equal nodes once.
C19_BfsVisitsOnce ==
    (pc = "bfs")
    ~> (pc = "returned"
        /\ \A n \in Nodes :
              Count(bfs_visited, n) = IF n \in ReachSet(children, root) THEN 1 ELSE 0)

\* a returned traversal of a graph with a cycle, a node with two parents and
\* two distinct nodes of the same class, scope and children
C19_Witness ==
    /\ op = "bfs" /\ pc = "returned"
    /\ ~Acyclic(children, root)
    /\ \E n \in ReachSet(children, root) : Cardinality(ParentSet(children, root, n)) >= 2
    /\ \E a \in ReachSet(children, root), b \in ReachSet(children, root) :
          a # b /\ SameStructure(a, b, NumNodes)
    /\ Len(bfs_visited) = Cardinality(ReachSet(children, root))

\* C20: a call of set_node_ids on a graph unchanged since the previous call
\* gives every node the id the previous call gave it.
C20_SetNodeIdsIdempotent ==
    \A k \in 2..Len(id_log) : \A n \in Nodes : id_log[k][n] = id_log[k - 1][n]

\* two calls were made on a graph with an internal node below the root; the
\* root has the largest id and exactly the nodes of the graph are labelled
C20_Witness ==
    /\ op = "set_node_ids" /\ pc = "returned" /\ Len(id_log) >= 2
    /\ \E n \in ReachSet(children, root) \ {root} : children[n] # <<>>
    /\ id[root] = Cardinality(ReachSet(children, root)) - 1
    /\ \A n \in Nodes : (id[n] = -1) = (n \notin ReachSet(children, root))

\* C21: after set_node_ids on an acyclic graph of N reachable nodes the ids
\* of these nodes are exactly 0..N-1, no id is used twice, every node's id is
\* greater than the id of each of its children and the root has id N-1.
C21_IdsTopological ==
    (op = "set_node_ids" /\ pc \in {"returned", "raised"} /\ Acyclic(children, root))
    => LET R == ReachSet(children, root)
           N == Cardinality(R)
       IN /\ pc = "returned"
          /\ {id[n] : n \in R} = 0..(N - 1)
          /\ \A a \in R, b \in R : a # b => id[a] # id[b]
          /\ \A n \in R : \A c \in Kids(children, n) : id[n] > id[c]
          /\ id[root] = N - 1

\* the first labelling of a graph of three nodes in which a leaf is the child
\* of the root and of another internal node
C21_Witness ==
    /\ op = "set_node_ids" /\ pc = "returned" /\ Len(id_log) = 1
    /\ Cardinality(ReachSet(children, root)) = NumNodes
    /\ \E n \in ReachSet(children, root) :
          /\ children[n] = <<>>
          /\ Cardinality(ParentSet(children, root, n)) >= 2

\* the functions that only read the graph
Traversals ==
    {"bfs", "get_nodes_by_type", "get_topological_order", "get_topological_order_layers",
     "eval_spn_bottom_up", "eval_spn_top_down"}

C23_BottomUpHandlerResolution ==
    (op = "eval_spn_bottom_up" /\ pc \in {"bu_loop", "returned", "raised"})
    => \A i \in 1..idx :
          LET t == ntype[order[i]]
              exact == t \in eval_functions
              generic == ~exact /\ IsLeafType(t) /\ "ILeafNode" \in eval_functions
          IN IF exact \/ generic
             THEN /\ i \in DOMAIN calls
                  /\ calls[i].node = order[i]
                  /\ calls[i].func = (IF exact THEN t ELSE "ILeafNode")
                  /\ calls[i].with_children = ~IsLeafType(calls[i].func)
             ELSE /\ i = idx /\ Len(calls) = idx - 1
                  /\ pc = "raised" /\ ret.kind = "exception" /\ ret.exc = "AssertionError"

\* a returned call in which the Gaussian handler and the ILeafNode handler
\* are both registered and a Gaussian leaf below an internal node was handled
C23_Witness ==
    /\ op = "eval_spn_bottom_up" /\ pc = "returned"
    /\ {"Gaussian", "ILeafNode", "IProductNode"} \subseteq eval_functions
    /\ \E k \in DOMAIN calls : ntype[calls[k].node] = "Gaussian" /\ calls[k].node # root
    /\ \E k \in DOMAIN calls : calls[k].with_children /\ Len(calls[k].args) >= 2

\* C24: after a successful eval_spn_bottom_up to which the caller passed a
\* map, the keys of the map are exactly the nodes reachable from the root,
\* each key maps to what the handler of that node returned in this call, and
\* the value returned is the entry of the root.
C24_SuppliedMapCleared ==
    (op = "eval_spn_bottom_up" /\ pc = "returned" /\ ~supplied.is_none)
    => /\ DOMAIN all_results = ReachSet(children, root)
       /\ \A n \in DOMAIN all_results :
             \E k \in DOMAIN calls :
                /\ calls[k].node = n
                /\ all_results[n] = HandlerResult(n, calls[k].args)
       /\ ret.kind = "value" /\ ret.value = all_results[root]

\* a successful call on a graph of two nodes to which a map with an entry
\* for every node, in the graph or not, was passed
C24_Witness ==
    /\ op = "eval_spn_bottom_up" /\ pc = "returned"
    /\ ~supplied.is_none /\ DOMAIN supplied.map = Nodes
    /\ Cardinality(ReachSet(children, root)) = 2

\* C25: on an acyclic graph _get_node_counts returns the numbers of distinct
\* ISumNodes, IProductNodes and leaves reachable from the root, a node with
\* several parents being counted once.
C25_NodeCountsUnique ==
    (op = "_get_node_counts" /\ pc = "returned")
    => LET R == ReachSet(children, root)
       IN ret.value = << Cardinality({n \in R : ntype[n] = "ISumNode"}),
                         Cardinality({n \in R : ntype[n] = "IProductNode"}),
                         Cardinality({n \in R : IsLeafType(ntype[n])}) >>

\* C26: in eval_spn_top_down a leaf is handled by the ILeafNode handler
\* whenever one is registered, also when a handler of the leaf's own class is
\* registered (where eval_spn_bottom_up takes the latter); otherwise a node is
\* handled by the handler of its exact class, and reaching a node without one
\* ends the call with KeyError.
C26_TopDownHandlerResolution ==
    (op = "eval_spn_top_down" /\ pc \in {"td_loop", "returned", "raised"})
    => /\ \A k \in DOMAIN calls :
             LET t == ntype[calls[k].node]
             IN IF IsLeafType(t) /\ "ILeafNode" \in eval_functions
                THEN /\ calls[k].func = "ILeafNode"
                     /\ t \in eval_functions
                        => ResolveBottomUp(t, eval_functions).func = t
                ELSE /\ calls[k].func = t
                     /\ t \in eval_functions
       /\ \A i \in 1..idx :
             LET t == ntype[order[i]]
             IN (t \notin eval_functions /\ ~(IsLeafType(t) /\ "ILeafNode" \in eval_functions))
                => /\ i = idx /\ Len(calls) = idx - 1
                   /\ pc = "raised" /\ ret.kind = "exception" /\ ret.exc = "KeyError"

\* a returned top-down pass with handlers for Gaussian and for ILeafNode in
\* which a Gaussian leaf below the root was handled
C26_Witness ==
    /\ op = "eval_spn_top_down" /\ pc = "returned"
    /\ {"Gaussian", "ILeafNode"} \subseteq eval_functions
    /\ \E k \in DOMAIN calls :
          /\ calls[k].node # root
          /\ ntype[calls[k].node] = "Gaussian" /\ calls[k].func = "ILeafNode"

\* C29: eval_spn_top_down never calls a handler with an empty message list
\* and never skips a node: when it reaches a node other than the root for
\* which no handler has returned an entry, the call ends there with KeyError.
C29_MissingMessagesAbort ==
    op = "eval_spn_top_down"
    => /\ \A k \in DOMAIN calls : Len(calls[k].args) >= 1
       /\ \A i \in 1..idx :
             (order[i] # root /\ Senders(order[i]) = {})
             => /\ i = idx /\ Len(calls) = idx - 1
                /\ pc = "raised" /\ ret.kind = "exception" /\ ret.exc = "KeyError"

\* the call was aborted at a node that has a handler, below a parent whose
\* handler returned a dict without an entry for it
C29_Witness ==
    /\ op = "eval_spn_top_down" /\ pc = "raised" /\ idx >= 1
    /\ Len(calls) = idx - 1
    /\ ResolveTopDown(ntype[order[idx]], eval_functions).found
    /\ \E p \in ParentSet(children, root, order[idx]) :
          p \in DOMAIN returned /\ ~returned[p].is_none

C27_GaussianConstruction ==
    (call.op = "__init__" /\ call.class = "Gaussian" /\ Len(call.scope) = 1
        /\ IsFinite(call.args[1]) /\ IsFinite(call.args[2]) /\ Gt(call.args[2], Num(0)))
    => /\ call.ret.kind = "value"
       /\ leaf.class = "Gaussian"
       /\ leaf.attrs["mean"] = call.args[1]
       /\ leaf.attrs["stdev"] = call.args[2]

\* C28: a set_params call of a Gaussian, Bernoulli, Binomial or
\* Hypergeometric leaf that raises leaves every stored parameter of the leaf
\* as it was.
C28_RejectedSetParamsKeepsLeaf ==
    [][(leaf.class \in LeafClasses /\ call'.op = "set_params"
          /\ call'.ret.kind = "exception")
       => leaf' = leaf]_vars

\* a Hypergeometric leaf with all parameters set has rejected arguments whose
\* first one was valid and differs from the stored N
C28_Witness ==
    /\ leaf.class = "Hypergeometric" /\ NotSet(leaf) = {}
    /\ call.op = "set_params" /\ call.ret.kind = "exception"
    /\ IsFinite(call.args[1]) /\ Ge(call.args[1], Num(0))
    /\ call.args[1] # leaf.attrs["N"]

====
